---- MODULE Spec2Model ----
(***************************************************************************)
(* GradeBook Analyzer CLI (src/gradebook.py).                              *)
(*                                                                         *)
(* Text is a sequence of one-character strings, so that strip(), lower(),  *)
(* int(), float(), repr() and the CSV cell parsing are computed character  *)
(* by character.  A score is a number of hundredths (95.0 is 9500, 59.99   *)
(* is 5999); an average or a median is a fraction [num, den] of            *)
(* hundredths.  A dict is the sequence of its [k, v] items in insertion    *)
(* order.  A dict key is [t, s, n]: a str (t = "str", text s), a number    *)
(* (t = "num", value n) or the missing value NaN (t = "nan"), the three    *)
(* kinds of value pandas gives for a cell of the Name column.              *)
(*                                                                         *)
(* Scores are finite reals with at most two decimals.  float() also takes  *)
(* "nan", "inf" and exponents, and pandas reads an empty Marks cell as     *)
(* NaN; those inputs are not enumerated.  input() always returns a line    *)
(* (no EOF), and open() for writing succeeds.                              *)
(***************************************************************************)
EXTENDS Integers, Sequences, FiniteSets, TLC

\* ------------------------------------------------------------------ bounds
\* Largest student count typed at the "number of students" prompt.
MaxStudents == 2
\* Largest number of entries of a score mapping handed to a function in FnSpec.
MaxEntries == 3

\* Hundredths per unit of marks (the resolution of a score in the model).
Scale == 10 * 10

\* ------------------------------------------------------------------ state
VARIABLES
    pc,           \* where start_gradebook is
    choice,       \* start_gradebook's locals
    marks,
    grades,
    save_option,
    repeat,
    report,       \* what the last analysis printed
    results_file, \* final_results.csv, the one file the program writes
    out           \* the messages the last step printed

vars == <<pc, choice, marks, grades, save_option, repeat, report, results_file, out>>

\* ------------------------------------------------------------------- text
Digits == {"0", "1", "2", "3", "4", "5", "6", "7", "8", "9"}

DigitVal(c) ==
    CASE c = "0" -> 0 [] c = "1" -> 1 [] c = "2" -> 2 [] c = "3" -> 3
      [] c = "4" -> 4 [] c = "5" -> 5 [] c = "6" -> 6 [] c = "7" -> 7
      [] c = "8" -> 8 [] c = "9" -> 9

DigitChar(n) ==
    CASE n = 0 -> "0" [] n = 1 -> "1" [] n = 2 -> "2" [] n = 3 -> "3"
      [] n = 4 -> "4" [] n = 5 -> "5" [] n = 6 -> "6" [] n = 7 -> "7"
      [] n = 8 -> "8" [] n = 9 -> "9"

IsSpace(c) == c = " "

RECURSIVE LStrip(_)
LStrip(t) == IF t # <<>> /\ IsSpace(Head(t)) THEN LStrip(Tail(t)) ELSE t

RECURSIVE RStrip(_)
RStrip(t) ==
    IF t # <<>> /\ IsSpace(t[Len(t)]) THEN RStrip(SubSeq(t, 1, Len(t) - 1)) ELSE t

\* str.strip()
Strip(t) == RStrip(LStrip(t))

\* str.lower() on one character (the upper-case letters of the model's inputs).
LowerChar(c) ==
    CASE c = "A" -> "a" [] c = "B" -> "b" [] c = "N" -> "n" [] c = "Y" -> "y"
      [] OTHER -> c

\* str.lower()
Lower(t) == [i \in 1..Len(t) |-> LowerChar(t[i])]

AllDigits(t) == \A i \in 1..Len(t) : t[i] \in Digits

RECURSIVE DigitsValue(_)
DigitsValue(t) ==
    IF t = <<>> THEN 0
    ELSE 10 * DigitsValue(SubSeq(t, 1, Len(t) - 1)) + DigitVal(t[Len(t)])

Sign(t) == IF t # <<>> /\ Head(t) = "-" THEN -1 ELSE 1

Unsign(t) == IF t # <<>> /\ Head(t) \in {"-", "+"} THEN Tail(t) ELSE t

\* int(text): [ok, v]; ok = FALSE is ValueError.
int(t) ==
    LET s == Strip(t)
        u == Unsign(s)
    IN  IF u # <<>> /\ AllDigits(u)
        THEN [ok |-> TRUE, v |-> Sign(s) * DigitsValue(u)]
        ELSE [ok |-> FALSE, v |-> 0]

DotPos(u) ==
    IF \E i \in 1..Len(u) : u[i] = "."
    THEN CHOOSE i \in 1..Len(u) : u[i] = "." /\ \A j \in 1..(i - 1) : u[j] # "."
    ELSE 0

\* The fraction digits as hundredths; digits after the second are below the
\* model's resolution.
FracValue(f) ==
    (IF Len(f) >= 1 THEN 10 * DigitVal(f[1]) ELSE 0)
        + (IF Len(f) >= 2 THEN DigitVal(f[2]) ELSE 0)

\* float(text): [ok, v] with v in hundredths; ok = FALSE is ValueError.
float(t) ==
    LET s == Strip(t)
        u == Unsign(s)
        p == DotPos(u)
        ip == IF p = 0 THEN u ELSE SubSeq(u, 1, p - 1)
        fp == IF p = 0 THEN <<>> ELSE SubSeq(u, p + 1, Len(u))
    IN  IF (ip # <<>> \/ fp # <<>>) /\ AllDigits(ip) /\ AllDigits(fp)
        THEN [ok |-> TRUE, v |-> Sign(s) * (DigitsValue(ip) * Scale + FracValue(fp))]
        ELSE [ok |-> FALSE, v |-> 0]

RECURSIVE IntText(_)
IntText(n) ==
    IF n < 10 THEN <<DigitChar(n)>> ELSE IntText(n \div 10) \o <<DigitChar(n % 10)>>

Abs(n) == IF n < 0 THEN -n ELSE n

\* repr(float), which csv.writer writes for a float: the shortest decimal, with
\* at least one fraction digit.
FloatText(v) ==
    LET a == Abs(v)
        h == a % Scale
    IN  (IF v < 0 THEN <<"-">> ELSE <<>>) \o IntText(a \div Scale) \o <<".">>
            \o (IF h % 10 = 0 THEN <<DigitChar(h \div 10)>>
                ELSE <<DigitChar(h \div 10), DigitChar(h % 10)>>)

\* ------------------------------------------------------------------ dicts
StrKey(s) == [t |-> "str", s |-> s, n |-> 0]
NumKey(n) == [t |-> "num", s |-> <<>>, n |-> n]
\* NaN keys are one key here; no file of the directory has two blank names.
NanKey == [t |-> "nan", s |-> <<>>, n |-> 0]

Keys(d) == [i \in 1..Len(d) |-> d[i].k]
Values(d) == [i \in 1..Len(d) |-> d[i].v]
KeySet(d) == {d[i].k : i \in 1..Len(d)}
HasKey(d, k) == \E i \in 1..Len(d) : d[i].k = k
GetItem(d, k) == d[CHOOSE i \in 1..Len(d) : d[i].k = k].v

\* d[k] = v: a new key goes last, an existing key keeps its place.
SetItem(d, k, v) ==
    IF HasKey(d, k)
    THEN [i \in 1..Len(d) |-> IF d[i].k = k THEN [k |-> k, v |-> v] ELSE d[i]]
    ELSE Append(d, [k |-> k, v |-> v])

\* ----------------------------------------------------- manual data entry
InvalidInput == "Invalid input. Please enter numbers correctly."

\* The for loop of get_manual_data from student i on; lines[i] is what is typed
\* at the two prompts of student i.  A float() that raises leaves the loop with
\* what is filled so far.
RECURSIVE ManualLoop(_, _, _, _)
ManualLoop(count, lines, i, filled) ==
    IF i > count THEN [marks |-> filled, out |-> <<>>]
    ELSE LET name == Strip(lines[i][1])
             score == float(lines[i][2])
         IN  IF ~score.ok THEN [marks |-> filled, out |-> <<InvalidInput>>]
             ELSE ManualLoop(count, lines, i + 1, SetItem(filled, StrKey(name), score.v))

\* get_manual_data(): the mapping returned and the lines printed.
get_manual_data(countText, lines) ==
    LET count == int(countText)
    IN  IF ~count.ok THEN [marks |-> <<>>, out |-> <<InvalidInput>>]
        ELSE ManualLoop(count.v, lines, 1, <<>>)

\* ------------------------------------------------------------- CSV import
NameCol == <<"N", "a", "m", "e">>
MarksCol == <<"M", "a", "r", "k", "s">>
GradeCol == <<"G", "r", "a", "d", "e">>

CsvLoaded == "CSV data loaded successfully!"
FileNotFound == "File not found! Please check your filename."
CsvError == "Error reading CSV"

NoFile == [exists |-> FALSE, header |-> <<>>, rows |-> <<>>]
CsvFile(header, rows) == [exists |-> TRUE, header |-> header, rows |-> rows]

\* Cell texts pandas reads as a missing value (its default na_values, those
\* over the model's alphabet).
NaTokens == {<<>>, <<"N", "A">>, <<"n", "a", "n">>}

\* A column is numeric when every cell that is not missing parses as a number.
IsNumericColumn(cells) ==
    \A i \in 1..Len(cells) : cells[i] \in NaTokens \/ float(cells[i]).ok

ParseCell(cells, i) ==
    IF cells[i] \in NaTokens THEN NanKey
    ELSE IF IsNumericColumn(cells) THEN NumKey(float(cells[i]).v)
    ELSE StrKey(cells[i])

\* pd.read_csv(file): the columns and, row by row, the typed values.
read_csv(file) ==
    LET column(j) == [r \in 1..Len(file.rows) |-> file.rows[r][j]]
    IN  [columns |-> file.header,
         data |-> [r \in 1..Len(file.rows) |->
                     [j \in 1..Len(file.header) |-> ParseCell(column(j), r)]]]

\* The place of a column, 0 when row[label] raises KeyError.
ColIndex(df, label) ==
    IF \E j \in 1..Len(df.columns) : df.columns[j] = label
    THEN CHOOSE j \in 1..Len(df.columns) : df.columns[j] = label
    ELSE 0

\* float(x) of a value of the frame: a number, or a str that float() parses.  (Of
\* a missing Marks cell it is NaN; no file of the directory has one.)
FloatOf(x) ==
    CASE x.t = "num" -> [ok |-> TRUE, v |-> x.n]
      [] x.t = "str" -> float(x.s)

\* The iterrows loop of get_csv_data from row r on.  The right-hand side
\* float(row['Marks']) is evaluated before the target row['Name']; any exception
\* leaves the loop with what is filled so far.
RECURSIVE CsvLoop(_, _, _)
CsvLoop(df, r, filled) ==
    IF r > Len(df.data) THEN [marks |-> filled, out |-> <<CsvLoaded>>]
    ELSE LET m == ColIndex(df, MarksCol)
             n == ColIndex(df, NameCol)
         IN  IF m = 0 \/ ~FloatOf(df.data[r][m]).ok \/ n = 0
             THEN [marks |-> filled, out |-> <<CsvError>>]
             ELSE CsvLoop(df, r + 1,
                          SetItem(filled, df.data[r][n], FloatOf(df.data[r][m]).v))

\* get_csv_data() on the directory dir: the mapping returned and the lines
\* printed.
get_csv_data(dir, filenameText) ==
    LET filename == Strip(filenameText)
    IN  IF filename \notin DOMAIN dir \/ ~dir[filename].exists
        THEN [marks |-> <<>>, out |-> <<FileNotFound>>]
        ELSE CsvLoop(read_csv(dir[filename]), 1, <<>>)

\* ------------------------------------------------------------- statistics
Frac(n, d) == [num |-> n, den |-> d]

RECURSIVE Sum(_)
Sum(s) == IF s = <<>> THEN 0 ELSE Head(s) + Sum(Tail(s))

calculate_average(marks_dict) ==
    IF marks_dict # <<>> THEN Frac(Sum(Values(marks_dict)), Len(marks_dict))
    ELSE Frac(0, 1)

RECURSIVE Insert(_, _)
Insert(s, x) ==
    IF s = <<>> THEN <<x>>
    ELSE IF x < Head(s) THEN <<x>> \o s
    ELSE <<Head(s)>> \o Insert(Tail(s), x)

RECURSIVE Sorted(_)
Sorted(s) ==
    IF s = <<>> THEN <<>> ELSE Insert(Sorted(SubSeq(s, 1, Len(s) - 1)), s[Len(s)])

\* median with the averaging of the two middle values forgotten.
median_Upper(data) ==
    LET s == Sorted(data) IN Frac(s[Len(s) \div 2 + 1], 1)

\* statistics.median(data): the middle of the sorted data, the mean of the two
\* middle values for an even count.
median(data) ==
    LET s == Sorted(data)
        n == Len(s)
    IN  IF n % 2 = 1 THEN Frac(s[n \div 2 + 1], 1)
        ELSE Frac(s[n \div 2] + s[n \div 2 + 1], 2)

calculate_median(marks_dict) ==
    IF marks_dict # <<>> THEN median(Values(marks_dict)) ELSE Frac(0, 1)

RECURSIVE Max(_)
Max(s) ==
    IF Len(s) = 1 THEN s[1]
    ELSE LET m == Max(Tail(s)) IN IF m > Head(s) THEN m ELSE Head(s)

RECURSIVE Min(_)
Min(s) ==
    IF Len(s) = 1 THEN s[1]
    ELSE LET m == Min(Tail(s)) IN IF m < Head(s) THEN m ELSE Head(s)

find_max_score(marks_dict) == IF marks_dict # <<>> THEN Max(Values(marks_dict)) ELSE 0

find_min_score(marks_dict) == IF marks_dict # <<>> THEN Min(Values(marks_dict)) ELSE 0

\* ---------------------------------------------------------------- grading
MinA == 90
MinB == 80
MinC == 70
MinD == 60
PassMark == 40

Grades == {"A", "B", "C", "D", "F"}

\* GradeOf with > for >=.
GradeOf_Strict(score) ==
    IF score > MinA * Scale THEN "A"
    ELSE IF score > MinB * Scale THEN "B"
    ELSE IF score > MinC * Scale THEN "C"
    ELSE IF score > MinD * Scale THEN "D"
    ELSE "F"

GradeOf(score) ==
    IF score >= MinA * Scale THEN "A"
    ELSE IF score >= MinB * Scale THEN "B"
    ELSE IF score >= MinC * Scale THEN "C"
    ELSE IF score >= MinD * Scale THEN "D"
    ELSE "F"

RECURSIVE GradeLoop(_, _, _)
GradeLoop(marks_dict, i, grades_dict) ==
    IF i > Len(marks_dict) THEN grades_dict
    ELSE GradeLoop(marks_dict, i + 1,
                   SetItem(grades_dict, marks_dict[i].k, GradeOf(marks_dict[i].v)))

\* assign_grades with "grades = {}" forgotten: it fills the grades of the last
\* iteration.
assign_grades_Stale(marks_dict) == GradeLoop(marks_dict, 1, grades)

assign_grades(marks_dict) == GradeLoop(marks_dict, 1, <<>>)

RECURSIVE CountLoop(_, _, _)
CountLoop(grades_dict, i, distribution) ==
    IF i > Len(grades_dict) THEN distribution
    ELSE CountLoop(grades_dict, i + 1,
                   [distribution EXCEPT ![grades_dict[i].v] = @ + 1])

\* show_grade_distribution with the first student skipped.
show_grade_distribution_SkipFirst(grades_dict) ==
    CountLoop(grades_dict, 2, [g \in Grades |-> 0])

\* The distribution show_grade_distribution prints.
show_grade_distribution(grades_dict) ==
    CountLoop(grades_dict, 1, [g \in Grades |-> 0])

\* ------------------------------------------------------------ pass / fail
\* ", ".join(names) raises TypeError on a name that is not a str.
JoinRaises(names) == \E i \in 1..Len(names) : names[i].t # "str"

\* show_pass_fail_summary with > for >= in the passed list.
show_pass_fail_summary_Strict(marks_dict) ==
    LET IsPass(score) == score > PassMark * Scale
        IsFail(score) == score < PassMark * Scale
        passed == Keys(SelectSeq(marks_dict, LAMBDA item : IsPass(item.v)))
        failed == Keys(SelectSeq(marks_dict, LAMBDA item : IsFail(item.v)))
    IN  [passed |-> passed, failed |-> failed,
         raises |-> JoinRaises(passed) \/ JoinRaises(failed)]

\* The two lists show_pass_fail_summary builds, and whether printing them
\* raises: a list is joined only when it is not empty.
show_pass_fail_summary(marks_dict) ==
    LET IsPass(score) == score >= PassMark * Scale
        IsFail(score) == score < PassMark * Scale
        passed == Keys(SelectSeq(marks_dict, LAMBDA item : IsPass(item.v)))
        failed == Keys(SelectSeq(marks_dict, LAMBDA item : IsFail(item.v)))
    IN  [passed |-> passed, failed |-> failed,
         raises |-> JoinRaises(passed) \/ JoinRaises(failed)]

\* The rows display_results prints.
display_results(marks_dict, grades_dict) ==
    [i \in 1..Len(marks_dict) |->
        <<marks_dict[i].k, marks_dict[i].v, GetItem(grades_dict, marks_dict[i].k)>>]

\* ----------------------------------------------------------------- export
DefaultFile ==
    <<"f", "i", "n", "a", "l", "_", "r", "e", "s", "u", "l", "t", "s", ".", "c", "s", "v">>

\* What csv.writer writes for a name that is a str.
NameText(k) == CASE k.t = "str" -> k.s

\* The file export_to_csv writes (mode "w": whatever was there is gone).
export_to_csv(marks_dict, grades_dict) ==
    CsvFile(<<NameCol, MarksCol, GradeCol>>,
            [i \in 1..Len(marks_dict) |->
                <<NameText(marks_dict[i].k),
                  FloatText(GetItem(marks_dict, marks_dict[i].k)),
                  <<GetItem(grades_dict, marks_dict[i].k)>> >>])

\* ------------------------------------------------------- what is typed
ChoiceReplies == {<<"1">>, <<" ", "2">>, <<"3">>, <<"4">>}
CountReplies == {<<DigitChar(n)>> : n \in 0..MaxStudents} \cup {<<"x">>, <<"-", "1">>}
NameReplies == {<<" ", "A">>, <<>>}
ScoreReplies == {<<"9", "5">>, <<"3", "5", ".", "5">>, <<"x">>}
SaveReplies == {<<"y">>, <<"Y">>, <<"n">>}
RepeatReplies == {<<"y">>, <<"Y">>, <<"n">>, <<"y", " ">>}

\* The files of the working directory when the program starts.
GoodFile == <<"g", "o", "o", "d">>
BadRowFile == <<"b", "a", "d">>
NoMarksFile == <<"n", "o", "m">>
NoNameFile == <<"n", "o", "n">>
IdsFile == <<"i", "d", "s">>
MissingFile == <<"n", "o", "n", "e">>

FileNames ==
    {DefaultFile, GoodFile, BadRowFile, NoMarksFile, NoNameFile, IdsFile, MissingFile}

FileReplies == FileNames \cup {<<" ">> \o GoodFile}

ExternalFiles ==
    [f \in FileNames |->
        CASE f = GoodFile ->
                CsvFile(<<NameCol, MarksCol>>,
                        << <<<<"A">>, <<"9", "5">>>>, <<<<"B">>, <<"3", "5", ".", "5">>>> >>)
          [] f = BadRowFile ->
                CsvFile(<<NameCol, MarksCol>>,
                        << <<<<"A">>, <<"9", "5">>>>, <<<<"B">>, <<"x">>>> >>)
          [] f = NoMarksFile ->
                CsvFile(<<NameCol, <<"S">>>>, << <<<<"A">>, <<"9", "5">>>> >>)
          [] f = NoNameFile ->
                CsvFile(<<<<"S">>, MarksCol>>, << <<<<"A">>, <<"9", "5">>>> >>)
          [] f = IdsFile ->
                CsvFile(<<NameCol, MarksCol>>, << <<<<"7">>, <<"9", "5">>>> >>)
          [] OTHER -> NoFile]

\* The working directory: file name -> file.
Directory ==
    [f \in FileNames |-> IF f = DefaultFile THEN results_file ELSE ExternalFiles[f]]

\* ------------------------------------------------------- the session loop
NoData == "No data available to analyze."
InvalidChoice == "Invalid choice. Please try again."
Exiting == "Exiting GradeBook Analyzer. Have a great day!"
Thanks == "Thanks for using GradeBook Analyzer!"
Exported == "Results exported successfully"
TypeError == "TypeError: sequence item: expected str instance"

NoReport ==
    [avg |-> Frac(0, 1), median |-> Frac(0, 1), highest |-> 0, lowest |-> 0,
     distribution |-> [g \in Grades |-> 0], passed |-> <<>>, failed |-> <<>>,
     table |-> <<>>]

\* marks and grades are unbound until first assigned; the empty dict stands for
\* that, and neither is read before it is assigned.
Init ==
    /\ pc = "MenuPrompt"
    /\ choice = <<>>
    /\ marks = <<>>
    /\ grades = <<>>
    /\ save_option = <<>>
    /\ repeat = <<>>
    /\ report = NoReport
    /\ results_file = NoFile
    /\ out = <<>>

\* show_menu(), the choice, and the branch on it.
MenuPrompt ==
    /\ pc = "MenuPrompt"
    /\ \E reply \in ChoiceReplies :
        /\ choice' = Strip(reply)
        /\ pc' = CASE choice' = <<"1">> -> "ManualEntry"
                   [] choice' = <<"2">> -> "FileImport"
                   [] choice' = <<"3">> -> "Terminated"
                   [] OTHER -> "MenuPrompt"
        /\ out' = CASE choice' = <<"3">> -> <<Exiting>>
                    [] choice' \notin {<<"1">>, <<"2">>, <<"3">>} -> <<InvalidChoice>>
                    [] OTHER -> <<>>
    /\ UNCHANGED <<marks, grades, save_option, repeat, report, results_file>>

\* Entered with the "if not marks" check forgotten.
Entered_NoEmptyCheck(r) ==
    /\ marks' = r.marks
    /\ pc' = "Analyze"
    /\ out' = r.out
    /\ UNCHANGED <<choice, grades, save_option, repeat, report, results_file>>

\* marks = <what the data source returned>, then "if not marks: ... continue".
Entered(r) ==
    /\ marks' = r.marks
    /\ IF r.marks = <<>>
       THEN pc' = "MenuPrompt" /\ out' = r.out \o <<NoData>>
       ELSE pc' = "Analyze" /\ out' = r.out
    /\ UNCHANGED <<choice, grades, save_option, repeat, report, results_file>>

\* The number of students get_manual_data prompts for at most.
Prompted(countText) ==
    IF int(countText).ok /\ int(countText).v > 0 THEN int(countText).v ELSE 0

ManualEntry ==
    /\ pc = "ManualEntry"
    /\ \E countText \in CountReplies :
        \E lines \in [1..Prompted(countText) -> NameReplies \X ScoreReplies] :
            Entered(get_manual_data(countText, lines))

FileImport ==
    /\ pc = "FileImport"
    /\ \E filename \in FileReplies : Entered(get_csv_data(Directory, filename))

\* Statistics, grades, distribution, pass/fail summary and the table.  The
\* TypeError of show_pass_fail_summary is caught nowhere: it ends the process
\* before display_results.
Analyze ==
    /\ pc = "Analyze"
    /\ grades' = assign_grades(marks)
    /\ LET pf == show_pass_fail_summary(marks)
           stats == [report EXCEPT !.avg = calculate_average(marks),
                                   !.median = calculate_median(marks),
                                   !.highest = find_max_score(marks),
                                   !.lowest = find_min_score(marks),
                                   !.distribution = show_grade_distribution(grades')]
       IN  IF pf.raises
           THEN /\ report' = stats
                /\ pc' = "Crashed"
                /\ out' = <<TypeError>>
           ELSE /\ report' = [stats EXCEPT !.passed = pf.passed,
                                           !.failed = pf.failed,
                                           !.table = display_results(marks, grades')]
                /\ pc' = "ExportPrompt"
                /\ out' = <<>>
    /\ UNCHANGED <<choice, marks, save_option, repeat, results_file>>

ExportPrompt ==
    /\ pc = "ExportPrompt"
    /\ \E reply \in SaveReplies :
        /\ save_option' = Lower(reply)
        /\ IF save_option' = <<"y">>
           THEN /\ results_file' = export_to_csv(marks, grades)
                /\ out' = <<Exported>>
           ELSE /\ results_file' = results_file
                /\ out' = <<>>
    /\ pc' = "RepeatPrompt"
    /\ UNCHANGED <<choice, marks, grades, repeat, report>>

RepeatPrompt ==
    /\ pc = "RepeatPrompt"
    /\ \E reply \in RepeatReplies :
        /\ repeat' = Lower(reply)
        /\ IF repeat' # <<"y">>
           THEN pc' = "Terminated" /\ out' = <<Thanks>>
           ELSE pc' = "MenuPrompt" /\ out' = <<>>
    /\ UNCHANGED <<choice, marks, grades, save_option, report, results_file>>

Next == MenuPrompt \/ ManualEntry \/ FileImport \/ Analyze \/ ExportPrompt \/ RepeatPrompt

Spec == Init /\ [][Next]_vars

\* ------------------------------------------- the functions, one call each
\* Every function of the module called once on a score mapping of at most
\* MaxEntries students.
FnNames == {<<"A">>, <<"B">>, <<"C">>, <<"D">>}
FnScores == {3999, 40 * Scale, 5999, 60 * Scale, 70 * Scale, 80 * Scale, 90 * Scale}

FnItems == [k : {StrKey(s) : s \in FnNames}, v : FnScores]

\* The mappings of at most MaxEntries students, each name once.
Mappings ==
    {d \in UNION {[1..n -> FnItems] : n \in 0..MaxEntries} :
        \A i, j \in 1..Len(d) : d[i].k = d[j].k => i = j}

FnInit ==
    /\ pc = "Call"
    /\ marks \in Mappings
    /\ choice = <<>>
    /\ grades = <<>>
    /\ save_option = <<>>
    /\ repeat = <<>>
    /\ report = NoReport
    /\ results_file = NoFile
    /\ out = <<>>

CallStatistics ==
    /\ pc = "Call"
    /\ report' = [report EXCEPT !.avg = calculate_average(marks),
                                !.median = calculate_median(marks),
                                !.highest = find_max_score(marks),
                                !.lowest = find_min_score(marks)]
    /\ pc' = "Statistics"
    /\ UNCHANGED <<choice, marks, grades, save_option, repeat, results_file, out>>

CallAssignGrades ==
    /\ pc = "Call"
    /\ grades' = assign_grades(marks)
    /\ pc' = "Graded"
    /\ UNCHANGED <<choice, marks, save_option, repeat, report, results_file, out>>

CallShowGradeDistribution ==
    /\ pc = "Graded"
    /\ report' = [report EXCEPT !.distribution = show_grade_distribution(grades)]
    /\ pc' = "Distribution"
    /\ UNCHANGED <<choice, marks, grades, save_option, repeat, results_file, out>>

CallShowPassFailSummary ==
    /\ pc = "Call"
    /\ LET pf == show_pass_fail_summary(marks)
       IN  report' = [report EXCEPT !.passed = pf.passed, !.failed = pf.failed]
    /\ pc' = "PassFail"
    /\ UNCHANGED <<choice, marks, grades, save_option, repeat, results_file, out>>

FnNext ==
    CallStatistics \/ CallAssignGrades \/ CallShowGradeDistribution
        \/ CallShowPassFailSummary

FnSpec == FnInit /\ [][FnNext]_vars

\* ================================================================ claims
Printed(msg) == \E i \in 1..Len(out) : out[i] = msg

\* C1 (as claimed): a manual entry that ends on the invalid-input warning, after
\* any number of accepted students, returns an empty mapping.
C1_AbortedBatchIsEmpty ==
    (choice = <<"1">> /\ pc \in {"MenuPrompt", "Analyze"} /\ Printed(InvalidInput))
        => marks = <<>>

\* C2 (as claimed): a file import that ends on an error message (missing file,
\* missing column, a Marks value that is no number) returns an empty mapping.
C2_FailedImportIsEmpty ==
    (choice = <<"2">> /\ pc \in {"MenuPrompt", "Analyze"}
        /\ (Printed(FileNotFound) \/ Printed(CsvError)))
        => marks = <<>>

\* C3: a data source that yields an empty mapping sends the loop back to the menu
\* with the "No data available to analyze" warning, a non-empty one sends it to
\* Analyze; Analyze, ExportPrompt and RepeatPrompt are only ever entered with a
\* non-empty mapping, and the warning is printed by nothing else.
C3_EmptyReturnsToMenu ==
    [][/\ pc \in {"ManualEntry", "FileImport"} =>
            IF marks' = <<>>
            THEN pc' = "MenuPrompt" /\ out' # <<>> /\ out'[Len(out')] = NoData
            ELSE pc' = "Analyze" /\ ~(\E i \in 1..Len(out') : out'[i] = NoData)
       /\ pc' \in {"Analyze", "ExportPrompt", "RepeatPrompt"} => marks' # <<>>
       /\ pc \notin {"ManualEntry", "FileImport"} =>
            ~(\E i \in 1..Len(out') : out'[i] = NoData)]_vars

\* C3 witness: the warning, back at the menu, after an earlier analysis.
C3_Witness ==
    /\ pc = "MenuPrompt"
    /\ marks = <<>>
    /\ Printed(NoData)
    /\ grades # <<>>

\* C4 (as claimed): Analyze is always followed by ExportPrompt and that by
\* RepeatPrompt, each entered from nowhere else; RepeatPrompt goes to MenuPrompt
\* iff the lower-cased reply is "y" and to Terminated otherwise; Terminated is
\* entered only from MenuPrompt on choice 3 or from RepeatPrompt, and is never left.
C4_AnalyzeExportRepeat ==
    [][/\ pc = "Analyze" => pc' = "ExportPrompt"
       /\ pc = "ExportPrompt" => pc' = "RepeatPrompt"
       /\ pc' = "ExportPrompt" => pc = "Analyze"
       /\ pc' = "RepeatPrompt" => pc = "ExportPrompt"
       /\ pc = "RepeatPrompt" =>
            IF repeat' = <<"y">> THEN pc' = "MenuPrompt" ELSE pc' = "Terminated"
       /\ pc' = "Terminated" =>
            \/ pc = "MenuPrompt" /\ choice' = <<"3">>
            \/ pc = "RepeatPrompt" /\ repeat' # <<"y">>
       /\ pc # "Terminated"]_vars

\* C7 (as claimed): after an export the file is the header Name,Marks,Grade and
\* one row per student, and importing it gives back the score mapping, same
\* names, same scores, same order.
C7_ExportImportRoundTrip ==
    (pc = "RepeatPrompt" /\ save_option = <<"y">>) =>
        /\ results_file.exists
        /\ results_file.header = <<NameCol, MarksCol, GradeCol>>
        /\ Len(results_file.rows) = Len(marks)
        /\ get_csv_data(Directory, DefaultFile).marks = marks

\* C8: from the moment an iteration has computed its grades, the grades have the
\* names of the current scores, in their order, each the grade of the current
\* score; the table shown and the file exported hold the current names, scores
\* and grades only.
C8_GradesMatchScores ==
    /\ pc \in {"ExportPrompt", "RepeatPrompt", "Crashed"} =>
        /\ Keys(grades) = Keys(marks)
        /\ \A i \in 1..Len(marks) :
            /\ grades[i].v \in Grades
            /\ (grades[i].v = "F") = (marks[i].v < 60 * Scale)
            /\ (grades[i].v = "A") = (marks[i].v >= 90 * Scale)
    /\ pc \in {"ExportPrompt", "RepeatPrompt"} =>
        report.table = [i \in 1..Len(marks) |-> <<marks[i].k, marks[i].v, grades[i].v>>]
    /\ (pc = "RepeatPrompt" /\ save_option = <<"y">>) =>
        /\ Len(results_file.rows) = Len(marks)
        /\ \A i \in 1..Len(marks) :
            /\ results_file.rows[i][1] = marks[i].k.s
            /\ results_file.rows[i][3] = <<grades[i].v>>

\* C8 witness: grades computed in a later iteration, for names other than those
\* an earlier iteration exported.
C8_Witness ==
    /\ pc = "ExportPrompt"
    /\ repeat = <<"y">>
    /\ results_file.exists
    /\ [i \in 1..Len(results_file.rows) |-> StrKey(results_file.rows[i][1])]
          # Keys(marks)

Index(d, k) == CHOOSE i \in 1..Len(d) : d[i].k = k

InMarksOrder(names) ==
    \A a, b \in 1..Len(names) : a < b => Index(marks, names[a]) < Index(marks, names[b])

\* C5: the passed and the failed list hold every student exactly once between
\* them, passed iff the score is at least 40, failed otherwise, each list in the
\* order of the mapping, and the two counts add up to the number of students.
C5_PassFailPartition ==
    pc = "PassFail" =>
        LET both == report.passed \o report.failed
        IN  /\ Len(report.passed) + Len(report.failed) = Len(marks)
            /\ \A j \in 1..Len(both) : HasKey(marks, both[j])
            /\ \A i \in 1..Len(marks) :
                /\ Cardinality({j \in 1..Len(both) : both[j] = marks[i].k}) = 1
                /\ (marks[i].v >= 40 * Scale)
                     = (\E j \in 1..Len(report.passed) : report.passed[j] = marks[i].k)
                /\ (marks[i].v < 40 * Scale)
                     = (\E j \in 1..Len(report.failed) : report.failed[j] = marks[i].k)
            /\ InMarksOrder(report.passed)
            /\ InMarksOrder(report.failed)

\* C5 witness: a student with exactly 40 passed, another failed, two in one list.
C5_Witness ==
    /\ pc = "PassFail"
    /\ Len(report.passed) = 2
    /\ Len(report.failed) = 1
    /\ \E i \in 1..Len(marks) : marks[i].v = 40 * Scale /\ report.passed[1] = marks[i].k

\* C6: every student gets exactly one of the five grades: A iff score >= 90, B iff
\* 80 <= score < 90, C iff 70 <= score < 80, D iff 60 <= score < 70, F iff
\* score < 60.
C6_GradeThresholds ==
    pc = "Graded" =>
        /\ Keys(grades) = Keys(marks)
        /\ \A i \in 1..Len(marks) :
            LET s == marks[i].v
                g == grades[i].v
            IN  /\ g \in Grades
                /\ (g = "A") = (s >= 90 * Scale)
                /\ (g = "B") = (s >= 80 * Scale /\ s < 90 * Scale)
                /\ (g = "C") = (s >= 70 * Scale /\ s < 80 * Scale)
                /\ (g = "D") = (s >= 60 * Scale /\ s < 70 * Scale)
                /\ (g = "F") = (s < 60 * Scale)

\* C6 witness: the boundary scores 90 and 60 and the score 59.99 graded together.
C6_Witness ==
    /\ pc = "Graded"
    /\ \E i, j, k \in 1..Len(marks) :
        /\ marks[i].v = 90 * Scale /\ grades[i].v = "A"
        /\ marks[j].v = 60 * Scale /\ grades[j].v = "D"
        /\ marks[k].v = 5999 /\ grades[k].v = "F"

\* C9: the distribution has the five grades as its keys, each count is the number
\* of students with that grade, and the five counts add up to the number of
\* students.
C9_DistributionCounts ==
    pc = "Distribution" =>
        LET d == report.distribution
        IN  /\ DOMAIN d = {"A", "B", "C", "D", "F"}
            /\ \A g \in DOMAIN d :
                d[g] = Cardinality({i \in 1..Len(grades) : grades[i].v = g})
            /\ d["A"] + d["B"] + d["C"] + d["D"] + d["F"] = Len(marks)

\* C9 witness: three students, two with one grade, a grade nobody has.
C9_Witness ==
    /\ pc = "Distribution"
    /\ Len(marks) = 3
    /\ report.distribution["A"] = 2
    /\ report.distribution["F"] = 1
    /\ report.distribution["B"] = 0

RECURSIVE Total(_, _)
Total(xs, I) ==
    IF I = {} THEN 0 ELSE LET i == CHOOSE i \in I : TRUE IN xs[i] + Total(xs, I \ {i})

\* C10: on the empty mapping the four statistics are 0; otherwise the average
\* times the count is the total, highest and lowest are scores that bound all
\* scores, and the median is the middle score of an odd count and the mean of
\* the two middle scores of an even count.
C10_Statistics ==
    pc = "Statistics" =>
        LET xs == Values(marks)
            n == Len(xs)
            I == 1..n
            less(x) == Cardinality({i \in I : xs[i] < x})
            more(x) == Cardinality({i \in I : xs[i] > x})
            m == report.median
        IN  IF n = 0
            THEN /\ report.avg.num = 0
                 /\ m.num = 0
                 /\ report.highest = 0
                 /\ report.lowest = 0
            ELSE /\ report.avg.den > 0
                 /\ report.avg.num * n = Total(xs, I) * report.avg.den
                 /\ \E i \in I : xs[i] = report.highest
                 /\ \A i \in I : xs[i] <= report.highest
                 /\ \E i \in I : xs[i] = report.lowest
                 /\ \A i \in I : xs[i] >= report.lowest
                 /\ m.den > 0
                 /\ IF n % 2 = 1
                    THEN \E i \in I :
                            /\ xs[i] * m.den = m.num
                            /\ 2 * less(xs[i]) < n
                            /\ 2 * more(xs[i]) < n
                    ELSE \E i, j \in I :
                            /\ (xs[i] + xs[j]) * m.den = 2 * m.num
                            /\ xs[i] <= xs[j]
                            /\ 2 * less(xs[i]) < n
                            /\ 2 * (n - more(xs[i])) >= n
                            /\ 2 * more(xs[j]) < n
                            /\ 2 * (n - less(xs[j])) >= n

\* C10 witness: an even count of different scores, entered highest first.
C10_Witness ==
    /\ pc = "Statistics"
    /\ Len(marks) = 2
    /\ marks[1].v > marks[2].v
    /\ report.median.den = 2

====
